---- MODULE Spec2Model ----
(***************************************************************************)
(* Model of static/script.js: the two DOM event handlers of the anomaly    *)
(* detection page.  The generate button's click handler posts to           *)
(* /generate_data, the upload form's submit handler posts to /analyze.     *)
(* Each handler is an async function: it runs synchronously up to its      *)
(* first await, is suspended while fetch() is pending, is suspended again  *)
(* while response.json() is pending, and then runs synchronously to its    *)
(* end.  Every synchronous run is one action of the model.                 *)
(*                                                                         *)
(* An optional JavaScript value (a JSON field that may be absent, the      *)
(* first selected file) is a sequence of length 0 (undefined) or 1.        *)
(***************************************************************************)
EXTENDS Naturals, Sequences, FiniteSets

VARIABLES
    startDate,            \* #startDate.value
    duration,             \* #duration.value
    file,                 \* #fileInput.files[0]
    generationStatusHidden, \* #generationStatus has class d-none
    generationStatus,     \* #generationStatus.innerHTML (the banner it holds)
    loadingHidden,        \* #loading has class d-none
    resultsHidden,        \* #results has class d-none
    totalRecords,         \* #totalRecords.textContent
    anomalyCount,         \* #anomalyCount.textContent
    anomalyPercentage,    \* #anomalyPercentage.textContent
    scatterPlot,          \* #scatterPlot.src
    distributionPlot,     \* #distributionPlot.src
    downloadBtn,          \* the URL #downloadBtn.onclick navigates to
    recommendationsList,  \* #recommendationsList.innerHTML (its items)
    recommendationsCardHidden, \* #recommendationsCard has class d-none
    genPending,           \* click handlers suspended at an await
    analyzePending,       \* submit handlers suspended at an await
    fetchCount,           \* number of fetch() calls issued so far
    alerted,              \* the alert() raised by the latest step, if any
    last                  \* the latest step: which handler ran, on what input

dom == <<generationStatusHidden, generationStatus, loadingHidden, resultsHidden,
         totalRecords, anomalyCount, anomalyPercentage, scatterPlot,
         distributionPlot, downloadBtn, recommendationsList,
         recommendationsCardHidden>>

inputs == <<startDate, duration, file>>

vars == <<startDate, duration, file, generationStatusHidden, generationStatus,
          loadingHidden, resultsHidden, totalRecords, anomalyCount,
          anomalyPercentage, scatterPlot, distributionPlot, downloadBtn,
          recommendationsList, recommendationsCardHidden, genPending,
          analyzePending, fetchCount, alerted, last>>

-----------------------------------------------------------------------------
(* Bounds of the model. *)

\* fetch() calls issued in one run of the page
MaxFetches == 2

-----------------------------------------------------------------------------
(* The values the user and the server can supply. *)

Undefined == <<>>
Some(v) == <<v>>

Dates == {"", "2024-01-01"}
Durations == {"24"}
Files == {Undefined, Some("a.csv"), Some("b.csv")}

\* what a rejected fetch() and a rejected response.json() carry as message
NetworkErrors == {"Failed to fetch"}
ParseErrors == {"Unexpected token < in JSON"}

\* JSON bodies /generate_data can answer with
GenerateData ==
    {[error |-> e, filename |-> f] :
        e \in {Undefined, Some(""), Some("bad range")},
        f \in {Undefined, Some("sample.csv")}}

Statistics ==
    {[total_records |-> 100, anomaly_count |-> 5, anomaly_percentage |-> 5],
     [total_records |-> 12, anomaly_count |-> 0, anomaly_percentage |-> 0]}

Spike == [type |-> "Spike", severity |-> "HIGH", description |-> "d",
          recommendations |-> Some(<<"fix it">>)]
Scan == [type |-> "Scan", severity |-> "LOW", description |-> "e",
         recommendations |-> Some(<<>>)]
Flood == [type |-> "Flood", severity |-> "high", description |-> "f",
          recommendations |-> Some(<<"block", "log">>)]
Broken == [type |-> "Broken", severity |-> "HIGH", description |-> "g",
           recommendations |-> Undefined]

RecommendationLists ==
    {Undefined, Some(<<>>), Some(<<Spike>>), Some(<<Scan, Flood, Spike>>),
     Some(<<Spike, Broken>>)}

\* JSON bodies /analyze can answer with
AnalyzeData ==
    {[error |-> e, statistics |-> s, timestamp |-> t, recommendations |-> r] :
        e \in {Undefined},
        s \in {Undefined} \cup {Some(x) : x \in Statistics},
        t \in {Some("t1"), Some("t2")},
        r \in RecommendationLists}
    \cup
    {[error |-> e, statistics |-> Undefined, timestamp |-> Undefined,
      recommendations |-> Undefined] : e \in {Some(""), Some("bad file")}}

-----------------------------------------------------------------------------
(* JavaScript conversions the handlers rely on. *)

\* the condition of if (v): undefined and the empty string are falsy
Truthy(v) == v # Undefined /\ v[1] # ""

\* `${v}` of an optional string inside a template literal
Interpolate(v) == IF v = Undefined THEN "undefined" ELSE v[1]

Digit(n) ==
    CASE n = 0 -> "0" [] n = 1 -> "1" [] n = 2 -> "2" [] n = 3 -> "3"
      [] n = 4 -> "4" [] n = 5 -> "5" [] n = 6 -> "6" [] n = 7 -> "7"
      [] n = 8 -> "8" [] n = 9 -> "9"

\* String(n) of a non-negative integer, as textContent = n and `${n}` do
RECURSIVE NumberToString(_)
NumberToString(n) ==
    IF n < 10 THEN Digit(n) ELSE NumberToString(n \div 10) \o Digit(n % 10)

-----------------------------------------------------------------------------
(* The state of the page when the script has registered its handlers. *)

NoBanner == [class |-> "", text |-> "", href |-> Undefined]

Init ==
    /\ startDate = ""
    /\ duration = "24"
    /\ file = Undefined
    /\ generationStatusHidden = TRUE
    /\ generationStatus = NoBanner
    /\ loadingHidden = TRUE
    /\ resultsHidden = TRUE
    /\ totalRecords = ""
    /\ anomalyCount = ""
    /\ anomalyPercentage = ""
    /\ scatterPlot = ""
    /\ distributionPlot = ""
    /\ downloadBtn = Undefined
    /\ recommendationsList = <<>>
    /\ recommendationsCardHidden = TRUE
    /\ genPending = {}
    /\ analyzePending = {}
    /\ fetchCount = 0
    /\ alerted = Undefined
    /\ last = [op |-> "load"]

-----------------------------------------------------------------------------
(* The user fills in the form fields. *)

PickStartDate ==
    /\ \E d \in Dates : startDate' = d
    /\ alerted' = Undefined
    /\ last' = [op |-> "input"]
    /\ UNCHANGED <<duration, file, dom, genPending, analyzePending, fetchCount>>

PickDuration ==
    /\ \E d \in Durations : duration' = d
    /\ alerted' = Undefined
    /\ last' = [op |-> "input"]
    /\ UNCHANGED <<startDate, file, dom, genPending, analyzePending, fetchCount>>

PickFile ==
    /\ \E f \in Files : file' = f
    /\ alerted' = Undefined
    /\ last' = [op |-> "input"]
    /\ UNCHANGED <<startDate, duration, dom, genPending, analyzePending, fetchCount>>

-----------------------------------------------------------------------------
(* generateBtn click handler, lines 1-45. *)

analyzeDom == <<loadingHidden, resultsHidden, totalRecords, anomalyCount,
                anomalyPercentage, scatterPlot, distributionPlot, downloadBtn,
                recommendationsList, recommendationsCardHidden>>

\* variant: the link points at the analysis download endpoint
DownloadSampleHrefWrongEndpoint(filename) == "/download/" \o Interpolate(filename)

\* the href of the success banner's download link (line 34)
DownloadSampleHref(filename) == "/download_sample/" \o Interpolate(filename)

SuccessBanner(data) ==
    [class |-> "alert alert-success",
     text |-> "Sample data generated successfully!",
     href |-> Some(DownloadSampleHref(data.filename))]

DangerBanner(message) ==
    [class |-> "alert alert-danger",
     text |-> "Error generating sample data: " \o message,
     href |-> Undefined]

\* variant: the return of line 7 is missing, the handler alerts and goes on
GenerateAbortFallsThrough ==
    /\ alerted' = Some("Please select a start date")
    /\ generationStatusHidden' = FALSE
    /\ fetchCount' = fetchCount + 1
    /\ genPending' = genPending \cup
           {[id |-> fetchCount + 1, at |-> "fetch",
             body |-> [start_date |-> startDate, duration |-> duration]]}
    /\ UNCHANGED generationStatus

\* lines 5-8: no start date, alert and return
GenerateAbort ==
    /\ alerted' = Some("Please select a start date")
    /\ UNCHANGED <<generationStatusHidden, generationStatus, genPending, fetchCount>>

\* lines 10-23: reveal the status region, call fetch and suspend
GenerateSend ==
    /\ fetchCount < MaxFetches
    /\ alerted' = Undefined
    /\ generationStatusHidden' = FALSE
    /\ fetchCount' = fetchCount + 1
    /\ genPending' = genPending \cup
           {[id |-> fetchCount + 1, at |-> "fetch",
             body |-> [start_date |-> startDate, duration |-> duration]]}
    /\ UNCHANGED generationStatus

GenerateClick ==
    /\ IF startDate = "" THEN GenerateAbort ELSE GenerateSend
    /\ last' = [op |-> "generateClick", start_date |-> startDate]
    /\ UNCHANGED <<inputs, analyzeDom, analyzePending>>

\* variant: the catch block issues the request once more
GenerateCatchRetries(req, message) ==
    /\ generationStatus' = DangerBanner(message)
    /\ IF fetchCount < MaxFetches
       THEN /\ fetchCount' = fetchCount + 1
            /\ genPending' = (genPending \ {req}) \cup
                   {[id |-> fetchCount + 1, at |-> "fetch", body |-> req.body]}
       ELSE /\ genPending' = genPending \ {req}
            /\ UNCHANGED fetchCount
    /\ UNCHANGED generationStatusHidden

\* lines 38-44: the catch block
GenerateCatch(req, message) ==
    /\ generationStatus' = DangerBanner(message)
    /\ genPending' = genPending \ {req}
    /\ UNCHANGED <<generationStatusHidden, fetchCount>>

\* lines 27-36: the body is parsed
GenerateRender(req, data) ==
    IF Truthy(data.error)
    THEN GenerateCatch(req, data.error[1])
    ELSE /\ generationStatus' = SuccessBanner(data)
         /\ genPending' = genPending \ {req}
         /\ UNCHANGED <<generationStatusHidden, fetchCount>>

\* line 14: fetch() rejects
GenerateFetchFailed ==
    \E req \in genPending, m \in NetworkErrors :
        /\ req.at = "fetch"
        /\ GenerateCatch(req, m)
        /\ alerted' = Undefined
        /\ last' = [op |-> "generateSettled", outcome |-> "network",
                    message |-> m]
        /\ UNCHANGED <<inputs, analyzeDom, analyzePending>>

\* lines 14-25: fetch() resolves, the handler awaits response.json()
GenerateFetchResolved ==
    \E req \in genPending :
        /\ req.at = "fetch"
        /\ genPending' = (genPending \ {req}) \cup {[req EXCEPT !.at = "json"]}
        /\ alerted' = Undefined
        /\ last' = [op |-> "generateResponse"]
        /\ UNCHANGED <<inputs, dom, analyzePending, fetchCount>>

\* line 25: response.json() rejects
GenerateJsonFailed ==
    \E req \in genPending, m \in ParseErrors :
        /\ req.at = "json"
        /\ GenerateCatch(req, m)
        /\ alerted' = Undefined
        /\ last' = [op |-> "generateSettled", outcome |-> "parse",
                    message |-> m]
        /\ UNCHANGED <<inputs, analyzeDom, analyzePending>>

\* lines 25-36: response.json() resolves with the body
GenerateJsonResolved ==
    \E req \in genPending, data \in GenerateData :
        /\ req.at = "json"
        /\ GenerateRender(req, data)
        /\ alerted' = Undefined
        /\ last' = [op |-> "generateSettled", outcome |-> "data",
                    data |-> data]
        /\ UNCHANGED <<inputs, analyzeDom, analyzePending>>

-----------------------------------------------------------------------------
(* uploadForm submit handler, lines 47-120. *)

generateDom == <<generationStatusHidden, generationStatus>>

results == <<totalRecords, anomalyCount, anomalyPercentage, scatterPlot,
             distributionPlot, downloadBtn>>

\* variant: the plot and the timestamp change places in the path
VisualizationSrcSwapped(timestamp, plot) ==
    "/visualization/" \o plot \o "/" \o Interpolate(timestamp)

\* lines 83-84: the src of an image of the analysis
VisualizationSrc(timestamp, plot) ==
    "/visualization/" \o Interpolate(timestamp) \o "/" \o plot

\* line 89: where the download button navigates
DownloadHref(timestamp) == "/download/" \o Interpolate(timestamp)

\* variant: the severity is compared without regard to case
SeverityClassAnyCase(severity) ==
    "text-" \o (IF severity \in {"HIGH", "high"} THEN "danger" ELSE "warning")

\* line 100: the style of a recommendation's title
SeverityClass(severity) ==
    "text-" \o (IF severity = "HIGH" THEN "danger" ELSE "warning")

\* lines 99-109: one recommendation rendered
RecommendationItem(rec) ==
    [class |-> SeverityClass(rec.severity),
     title |-> rec.type \o " (" \o rec.severity \o " Severity)",
     description |-> rec.description,
     items |-> rec.recommendations[1]]

\* lines 98-110: data.recommendations.map(...)
RecommendationItems(recs) == [i \in 1..Len(recs) |-> RecommendationItem(recs[i])]

\* line 105: rec.recommendations.map throws when rec.recommendations is undefined
MapThrows(recs) == \E i \in 1..Len(recs) : recs[i].recommendations = Undefined

\* line 96: data.recommendations && data.recommendations.length > 0
HasRecommendations(data) ==
    data.recommendations # Undefined /\ Len(data.recommendations[1]) > 0

\* variant: the spinner of lines 59-60 is shown before the file is checked
UploadAbortAfterSpinner ==
    /\ alerted' = Some("Please select a file")
    /\ loadingHidden' = FALSE
    /\ resultsHidden' = TRUE
    /\ UNCHANGED <<analyzePending, fetchCount>>

\* lines 53-56: no file, alert and return
UploadAbort ==
    /\ alerted' = Some("Please select a file")
    /\ UNCHANGED <<loadingHidden, resultsHidden, analyzePending, fetchCount>>

\* variant: line 59 is missing, the spinner is not shown
UploadSendNoSpinner ==
    /\ fetchCount < MaxFetches
    /\ alerted' = Undefined
    /\ resultsHidden' = TRUE
    /\ fetchCount' = fetchCount + 1
    /\ analyzePending' = analyzePending \cup
           {[id |-> fetchCount + 1, at |-> "fetch", body |-> [file |-> file[1]]]}
    /\ UNCHANGED loadingHidden

\* variant: line 60 is missing, the earlier results stay on display
UploadSendKeepsResults ==
    /\ fetchCount < MaxFetches
    /\ alerted' = Undefined
    /\ loadingHidden' = FALSE
    /\ fetchCount' = fetchCount + 1
    /\ analyzePending' = analyzePending \cup
           {[id |-> fetchCount + 1, at |-> "fetch", body |-> [file |-> file[1]]]}
    /\ UNCHANGED resultsHidden

\* variant: a submit is dropped while an earlier one is in flight
UploadSendLocked ==
    IF analyzePending # {}
    THEN /\ alerted' = Undefined
         /\ UNCHANGED <<loadingHidden, resultsHidden, analyzePending, fetchCount>>
    ELSE /\ fetchCount < MaxFetches
         /\ alerted' = Undefined
         /\ loadingHidden' = FALSE
         /\ resultsHidden' = TRUE
         /\ fetchCount' = fetchCount + 1
         /\ analyzePending' = analyzePending \cup
                {[id |-> fetchCount + 1, at |-> "fetch", body |-> [file |-> file[1]]]}

\* lines 58-69: show the spinner, hide the results, call fetch and suspend
UploadSend ==
    /\ fetchCount < MaxFetches
    /\ alerted' = Undefined
    /\ loadingHidden' = FALSE
    /\ resultsHidden' = TRUE
    /\ fetchCount' = fetchCount + 1
    /\ analyzePending' = analyzePending \cup
           {[id |-> fetchCount + 1, at |-> "fetch", body |-> [file |-> file[1]]]}

UploadSubmit ==
    /\ IF file = Undefined THEN UploadAbort ELSE UploadSend
    /\ last' = [op |-> "uploadSubmit", file |-> file]
    /\ UNCHANGED <<inputs, generateDom, genPending, results,
                   recommendationsList, recommendationsCardHidden>>

\* variant: line 118 is missing, the catch block leaves the spinner on
AnalyzeCatchKeepsSpinner(req, message) ==
    /\ alerted' = Some("Error: " \o message)
    /\ analyzePending' = analyzePending \ {req}
    /\ UNCHANGED <<loadingHidden, fetchCount>>

\* lines 116-119: the catch block
AnalyzeCatch(req, message) ==
    /\ alerted' = Some("Error: " \o message)
    /\ loadingHidden' = TRUE
    /\ analyzePending' = analyzePending \ {req}
    /\ UNCHANGED fetchCount

\* variant: the else branch of lines 112-114 is missing
AnalyzeRecommendationsNeverHides(req, data) ==
    IF HasRecommendations(data)
    THEN IF MapThrows(data.recommendations[1])
         THEN /\ AnalyzeCatch(req,
                     "Cannot read properties of undefined (reading 'map')")
              /\ UNCHANGED <<recommendationsList, recommendationsCardHidden>>
         ELSE /\ recommendationsList' = RecommendationItems(data.recommendations[1])
              /\ recommendationsCardHidden' = FALSE
              /\ alerted' = Undefined
              /\ loadingHidden' = TRUE
              /\ analyzePending' = analyzePending \ {req}
              /\ UNCHANGED fetchCount
    ELSE /\ alerted' = Undefined
         /\ loadingHidden' = TRUE
         /\ analyzePending' = analyzePending \ {req}
         /\ UNCHANGED <<recommendationsList, recommendationsCardHidden, fetchCount>>

\* lines 96-114: the recommendations, once the results are shown
AnalyzeRecommendations(req, data) ==
    IF HasRecommendations(data)
    THEN IF MapThrows(data.recommendations[1])
         THEN /\ AnalyzeCatch(req,
                     "Cannot read properties of undefined (reading 'map')")
              /\ UNCHANGED <<recommendationsList, recommendationsCardHidden>>
         ELSE /\ recommendationsList' = RecommendationItems(data.recommendations[1])
              /\ recommendationsCardHidden' = FALSE
              /\ alerted' = Undefined
              /\ loadingHidden' = TRUE
              /\ analyzePending' = analyzePending \ {req}
              /\ UNCHANGED fetchCount
    ELSE /\ recommendationsCardHidden' = TRUE
         /\ alerted' = Undefined
         /\ loadingHidden' = TRUE
         /\ analyzePending' = analyzePending \ {req}
         /\ UNCHANGED <<recommendationsList, fetchCount>>

\* variant: a body with an error field also clears the statistic fields
AnalyzeRenderClearsOnError(req, data) ==
    IF Truthy(data.error)
    THEN /\ AnalyzeCatch(req, data.error[1])
         /\ totalRecords' = ""
         /\ anomalyCount' = ""
         /\ anomalyPercentage' = ""
         /\ UNCHANGED <<resultsHidden, scatterPlot, distributionPlot, downloadBtn,
                        recommendationsList, recommendationsCardHidden>>
    ELSE IF data.statistics = Undefined
    THEN /\ AnalyzeCatch(req,
                "Cannot read properties of undefined (reading 'total_records')")
         /\ UNCHANGED <<resultsHidden, results, recommendationsList,
                        recommendationsCardHidden>>
    ELSE /\ totalRecords' = NumberToString(data.statistics[1].total_records)
         /\ anomalyCount' = NumberToString(data.statistics[1].anomaly_count)
         /\ anomalyPercentage' =
                NumberToString(data.statistics[1].anomaly_percentage) \o "%"
         /\ scatterPlot' = VisualizationSrc(data.timestamp, "scatter")
         /\ distributionPlot' = VisualizationSrc(data.timestamp, "distribution")
         /\ downloadBtn' = Some(DownloadHref(data.timestamp))
         /\ resultsHidden' = FALSE
         /\ AnalyzeRecommendations(req, data)

\* variant: lines 87-90 bind the download button only while it is unbound
AnalyzeRenderBindsOnce(req, data) ==
    IF Truthy(data.error)
    THEN /\ AnalyzeCatch(req, data.error[1])
         /\ UNCHANGED <<resultsHidden, results, recommendationsList,
                        recommendationsCardHidden>>
    ELSE IF data.statistics = Undefined
    THEN /\ AnalyzeCatch(req,
                "Cannot read properties of undefined (reading 'total_records')")
         /\ UNCHANGED <<resultsHidden, results, recommendationsList,
                        recommendationsCardHidden>>
    ELSE /\ totalRecords' = NumberToString(data.statistics[1].total_records)
         /\ anomalyCount' = NumberToString(data.statistics[1].anomaly_count)
         /\ anomalyPercentage' =
                NumberToString(data.statistics[1].anomaly_percentage) \o "%"
         /\ scatterPlot' = VisualizationSrc(data.timestamp, "scatter")
         /\ distributionPlot' = VisualizationSrc(data.timestamp, "distribution")
         /\ downloadBtn' = IF downloadBtn = Undefined
                           THEN Some(DownloadHref(data.timestamp))
                           ELSE downloadBtn
         /\ resultsHidden' = FALSE
         /\ AnalyzeRecommendations(req, data)

\* variant: a response is dropped while the results of another are on display
AnalyzeRenderFirstWins(req, data) ==
    IF Truthy(data.error)
    THEN /\ AnalyzeCatch(req, data.error[1])
         /\ UNCHANGED <<resultsHidden, results, recommendationsList,
                        recommendationsCardHidden>>
    ELSE IF data.statistics = Undefined
    THEN /\ AnalyzeCatch(req,
                "Cannot read properties of undefined (reading 'total_records')")
         /\ UNCHANGED <<resultsHidden, results, recommendationsList,
                        recommendationsCardHidden>>
    ELSE IF ~resultsHidden
    THEN /\ alerted' = Undefined
         /\ loadingHidden' = TRUE
         /\ analyzePending' = analyzePending \ {req}
         /\ UNCHANGED <<resultsHidden, results, recommendationsList,
                        recommendationsCardHidden, fetchCount>>
    ELSE /\ totalRecords' = NumberToString(data.statistics[1].total_records)
         /\ anomalyCount' = NumberToString(data.statistics[1].anomaly_count)
         /\ anomalyPercentage' =
                NumberToString(data.statistics[1].anomaly_percentage) \o "%"
         /\ scatterPlot' = VisualizationSrc(data.timestamp, "scatter")
         /\ distributionPlot' = VisualizationSrc(data.timestamp, "distribution")
         /\ downloadBtn' = Some(DownloadHref(data.timestamp))
         /\ resultsHidden' = FALSE
         /\ AnalyzeRecommendations(req, data)

\* lines 73-114: the body is parsed
AnalyzeRender(req, data) ==
    IF Truthy(data.error)
    THEN /\ AnalyzeCatch(req, data.error[1])
         /\ UNCHANGED <<resultsHidden, results, recommendationsList,
                        recommendationsCardHidden>>
    ELSE IF data.statistics = Undefined
    THEN /\ AnalyzeCatch(req,
                "Cannot read properties of undefined (reading 'total_records')")
         /\ UNCHANGED <<resultsHidden, results, recommendationsList,
                        recommendationsCardHidden>>
    ELSE /\ totalRecords' = NumberToString(data.statistics[1].total_records)
         /\ anomalyCount' = NumberToString(data.statistics[1].anomaly_count)
         /\ anomalyPercentage' =
                NumberToString(data.statistics[1].anomaly_percentage) \o "%"
         /\ scatterPlot' = VisualizationSrc(data.timestamp, "scatter")
         /\ distributionPlot' = VisualizationSrc(data.timestamp, "distribution")
         /\ downloadBtn' = Some(DownloadHref(data.timestamp))
         /\ resultsHidden' = FALSE
         /\ AnalyzeRecommendations(req, data)

\* line 66: fetch() rejects
AnalyzeFetchFailed ==
    \E req \in analyzePending, m \in NetworkErrors :
        /\ req.at = "fetch"
        /\ AnalyzeCatch(req, m)
        /\ last' = [op |-> "analyzeSettled", id |-> req.id, outcome |-> "network",
                    message |-> m]
        /\ UNCHANGED <<inputs, generateDom, genPending, resultsHidden, results,
                       recommendationsList, recommendationsCardHidden>>

\* lines 66-71: fetch() resolves, the handler awaits response.json()
AnalyzeFetchResolved ==
    \E req \in analyzePending :
        /\ req.at = "fetch"
        /\ analyzePending' = (analyzePending \ {req}) \cup {[req EXCEPT !.at = "json"]}
        /\ alerted' = Undefined
        /\ last' = [op |-> "analyzeResponse"]
        /\ UNCHANGED <<inputs, dom, genPending, fetchCount>>

\* line 71: response.json() rejects
AnalyzeJsonFailed ==
    \E req \in analyzePending, m \in ParseErrors :
        /\ req.at = "json"
        /\ AnalyzeCatch(req, m)
        /\ last' = [op |-> "analyzeSettled", id |-> req.id, outcome |-> "parse",
                    message |-> m]
        /\ UNCHANGED <<inputs, generateDom, genPending, resultsHidden, results,
                       recommendationsList, recommendationsCardHidden>>

\* lines 71-114: response.json() resolves with the body
AnalyzeJsonResolved ==
    \E req \in analyzePending, data \in AnalyzeData :
        /\ req.at = "json"
        /\ AnalyzeRender(req, data)
        /\ last' = [op |-> "analyzeSettled", id |-> req.id, outcome |-> "data",
                    data |-> data]
        /\ UNCHANGED <<inputs, generateDom, genPending>>

-----------------------------------------------------------------------------

Next ==
    \/ PickStartDate
    \/ PickDuration
    \/ PickFile
    \/ GenerateClick
    \/ GenerateFetchFailed
    \/ GenerateFetchResolved
    \/ GenerateJsonFailed
    \/ GenerateJsonResolved
    \/ UploadSubmit
    \/ AnalyzeFetchFailed
    \/ AnalyzeFetchResolved
    \/ AnalyzeJsonFailed
    \/ AnalyzeJsonResolved

Spec == Init /\ [][Next]_vars

-----------------------------------------------------------------------------
(* What the latest step was, read from the state.  Every action writes     *)
(* last, so in a step that changes the state last' names that step.        *)

GenerateClicked == last.op = "generateClick"
UploadSubmitted == last.op = "uploadSubmit"
GenerateAnswered == last.op = "generateSettled" /\ last.outcome = "data"
AnalyzeAnswered == last.op = "analyzeSettled" /\ last.outcome = "data"

\* an /analyze body of the shape {statistics, timestamp, recommendations?}
AnalyzeSucceeded ==
    /\ AnalyzeAnswered
    /\ last.data.error = Undefined
    /\ last.data.statistics # Undefined
    /\ last.data.timestamp # Undefined

\* the text a statistic of the modelled bodies is displayed as
Displayed(n) == CASE n = 100 -> "100" [] n = 12 -> "12" [] n = 5 -> "5" [] n = 0 -> "0"

-----------------------------------------------------------------------------
(* C1: a click on generate while startDate is empty raises the alert,      *)
(* issues no request, and leaves the status region's visibility and        *)
(* content as they were.                                                   *)
C1_EmptyStartDateAborts ==
    [][(GenerateClicked' /\ startDate = "") =>
          /\ alerted' = Some("Please select a start date")
          /\ fetchCount' = fetchCount
          /\ genPending' = genPending
          /\ analyzePending' = analyzePending
          /\ generationStatusHidden' = generationStatusHidden
          /\ generationStatus' = generationStatus]_vars

\* an empty-date click made when the status region already shows a banner
C1_Witness ==
    /\ GenerateClicked
    /\ last.start_date = ""
    /\ alerted = Some("Please select a start date")
    /\ ~generationStatusHidden
    /\ generationStatus # NoBanner

(* C2: a submit with no file selected raises the alert, issues no request, *)
(* and leaves the loading indicator, the results panel, the statistic      *)
(* fields and the recommendations card as they were.                       *)
C2_NoFileAborts ==
    [][(UploadSubmitted' /\ file = Undefined) =>
          /\ alerted' = Some("Please select a file")
          /\ fetchCount' = fetchCount
          /\ analyzePending' = analyzePending
          /\ genPending' = genPending
          /\ loadingHidden' = loadingHidden
          /\ resultsHidden' = resultsHidden
          /\ totalRecords' = totalRecords
          /\ anomalyCount' = anomalyCount
          /\ anomalyPercentage' = anomalyPercentage
          /\ recommendationsList' = recommendationsList
          /\ recommendationsCardHidden' = recommendationsCardHidden]_vars

\* a file-less submit made while the results of an earlier analysis are shown
C2_Witness ==
    /\ UploadSubmitted
    /\ last.file = Undefined
    /\ alerted = Some("Please select a file")
    /\ ~resultsHidden
    /\ totalRecords # ""

\* the analyze submission just settled in an error: the request failed, the
\* body carries an error field, or rendering the body threw
AnalyzeErred ==
    /\ last.op = "analyzeSettled"
    /\ \/ last.outcome = "network"
       \/ /\ last.outcome = "data"
          /\ \/ last.data.error # Undefined
             \/ last.data.statistics = Undefined
             \/ /\ HasRecommendations(last.data)
                /\ MapThrows(last.data.recommendations[1])

(* C3: after any error of an analyze submission (network failure, error    *)
(* field, exception while rendering) an alert was raised, the loading      *)
(* indicator is hidden and the results panel is hidden.                    *)
C3_ErrorLeavesResultsHidden ==
    AnalyzeErred => (alerted # Undefined /\ loadingHidden /\ resultsHidden)

(* C4: after a successful analyze response is handled the statistic fields *)
(* hold total_records, anomaly_count and anomaly_percentage followed by    *)
(* '%', the images point at /visualization/<timestamp>/scatter and         *)
(* /visualization/<timestamp>/distribution, loading is hidden and the      *)
(* results panel is visible.                                               *)
C4_SuccessRendersResults ==
    AnalyzeSucceeded =>
        /\ totalRecords = Displayed(last.data.statistics[1].total_records)
        /\ anomalyCount = Displayed(last.data.statistics[1].anomaly_count)
        /\ anomalyPercentage =
               Displayed(last.data.statistics[1].anomaly_percentage) \o "%"
        /\ scatterPlot = "/visualization/" \o last.data.timestamp[1] \o "/scatter"
        /\ distributionPlot =
               "/visualization/" \o last.data.timestamp[1] \o "/distribution"
        /\ loadingHidden
        /\ ~resultsHidden

\* the response of the specification's example has just been handled
C4_Witness ==
    /\ AnalyzeSucceeded
    /\ last.data.statistics[1].total_records = 100
    /\ last.data.timestamp = Some("t1")
    /\ totalRecords = "100"
    /\ anomalyCount = "5"
    /\ anomalyPercentage = "5%"
    /\ scatterPlot = "/visualization/t1/scatter"
    /\ distributionPlot = "/visualization/t1/distribution"

(* C5: after a generation response without an error field is handled the   *)
(* status region holds the success banner, whose link is                   *)
(* /download_sample/<filename> for the filename of that response.          *)
C5_SuccessBannerLinksFile ==
    (GenerateAnswered /\ last.data.error = Undefined
                      /\ last.data.filename # Undefined) =>
        /\ generationStatus.class = "alert alert-success"
        /\ generationStatus.href =
               Some("/download_sample/" \o last.data.filename[1])

\* {filename: "sample.csv"} has just been handled
C5_Witness ==
    /\ GenerateAnswered
    /\ last.data = [error |-> Undefined, filename |-> Some("sample.csv")]
    /\ generationStatus.href = Some("/download_sample/sample.csv")
    /\ ~generationStatusHidden

\* the generation attempt just settled in a failure, with this message
GenerateFailed ==
    /\ last.op = "generateSettled"
    /\ \/ last.outcome = "network"
       \/ last.outcome = "data" /\ last.data.error # Undefined
GenerateFailure ==
    IF last.outcome = "network" THEN last.message ELSE last.data.error[1]

(* C6: after a failed generation attempt (network error, or a response     *)
(* carrying an error field) is handled the status region holds the danger  *)
(* banner 'Error generating sample data: <message>' with that failure's    *)
(* message, and neither a success banner nor a download link.              *)
C6_FailureShowsDangerBanner ==
    GenerateFailed =>
        /\ generationStatus.class = "alert alert-danger"
        /\ generationStatus.text = "Error generating sample data: " \o GenerateFailure
        /\ generationStatus.href = Undefined

\* an /analyze body whose recommendations all have the documented shape
WellFormedRecommendations ==
    /\ AnalyzeSucceeded
    /\ HasRecommendations(last.data)
    /\ \A i \in 1..Len(last.data.recommendations[1]) :
           last.data.recommendations[1][i].recommendations # Undefined

(* C7: after a successful analyze response with a non-empty                *)
(* recommendations list is handled the recommendations card is visible and *)
(* the list holds one item per recommendation, in order, titled            *)
(* '<type> (<severity> Severity)', styled danger when the severity is      *)
(* exactly 'HIGH' and warning otherwise.                                   *)
C7_RecommendationsRendered ==
    WellFormedRecommendations =>
        LET recs == last.data.recommendations[1] IN
        /\ ~recommendationsCardHidden
        /\ Len(recommendationsList) = Len(recs)
        /\ \A i \in 1..Len(recs) :
               /\ recommendationsList[i].title =
                      recs[i].type \o " (" \o recs[i].severity \o " Severity)"
               /\ recommendationsList[i].class =
                      IF recs[i].severity = "HIGH" THEN "text-danger"
                                                   ELSE "text-warning"

\* three recommendations, of severities LOW, high and HIGH, are displayed
C7_Witness ==
    /\ WellFormedRecommendations
    /\ ~recommendationsCardHidden
    /\ Len(recommendationsList) = 3
    /\ recommendationsList[2].class = "text-warning"
    /\ recommendationsList[3].title = "Spike (HIGH Severity)"
    /\ recommendationsList[3].class = "text-danger"

(* C8: after a successful analyze response whose recommendations list is   *)
(* empty or absent is handled the recommendations card is hidden, whatever *)
(* it was before.                                                          *)
C8_NoRecommendationsHidesCard ==
    (AnalyzeSucceeded /\ ~HasRecommendations(last.data)) =>
        recommendationsCardHidden

\* the list still holds the items of an earlier analysis, which had
\* revealed the card; the response with recommendations: [] hid it again
C8_Witness ==
    /\ AnalyzeSucceeded
    /\ last.data.recommendations = Some(<<>>)
    /\ recommendationsList # <<>>
    /\ recommendationsCardHidden

InFlight == Cardinality(genPending) + Cardinality(analyzePending)

(* C9: a generate click with a start date and a submit with a file each    *)
(* issue exactly one request, and no other step issues one: a request that *)
(* settles, failed or not, is never followed by a request of the           *)
(* handler's own.                                                          *)
C9_OneRequestPerAction ==
    [][/\ (GenerateClicked' /\ startDate # "") =>
              /\ fetchCount' = fetchCount + 1
              /\ Cardinality(genPending') = Cardinality(genPending) + 1
              /\ analyzePending' = analyzePending
       /\ (UploadSubmitted' /\ file # Undefined) =>
              /\ fetchCount' = fetchCount + 1
              /\ Cardinality(analyzePending') = Cardinality(analyzePending) + 1
              /\ genPending' = genPending
       /\ ~(GenerateClicked' \/ UploadSubmitted') =>
              /\ fetchCount' = fetchCount
              /\ InFlight' <= InFlight
       /\ (last'.op \in {"generateSettled", "analyzeSettled"}) =>
              InFlight' + 1 = InFlight]_vars

\* the only request issued has failed and nothing is in flight
C9_Witness ==
    /\ last.op \in {"generateSettled", "analyzeSettled"}
    /\ last.outcome = "network"
    /\ fetchCount = 1
    /\ InFlight = 0

(* C10: a submit with a file, or a click with a start date, is accepted    *)
(* while requests of the same kind are in flight and adds one more, so     *)
(* two requests of one kind can be in flight together.                     *)
C10_SubmissionsNotGuarded ==
    [][/\ (UploadSubmitted' /\ file # Undefined /\ analyzePending # {}) =>
              /\ analyzePending \subseteq analyzePending'
              /\ Cardinality(analyzePending') = Cardinality(analyzePending) + 1
       /\ (GenerateClicked' /\ startDate # "" /\ genPending # {}) =>
              /\ genPending \subseteq genPending'
              /\ Cardinality(genPending') = Cardinality(genPending) + 1]_vars

\* a second submit was accepted: two analyze requests are in flight
C10_Witness ==
    /\ UploadSubmitted
    /\ Cardinality(analyzePending) >= 2

-----------------------------------------------------------------------------
(* Every fetch() and every response.json() of an analyze submission        *)
(* settles: the assumption under which the handler is said to complete.    *)

(* The click handler and the date and duration fields share no variable    *)
(* with the submit handler, so the page is taken with the upload form      *)
(* alone in use.                                                           *)

UploadNext ==
    \/ PickFile
    \/ UploadSubmit
    \/ AnalyzeFetchFailed
    \/ AnalyzeFetchResolved
    \/ AnalyzeJsonFailed
    \/ AnalyzeJsonResolved

LiveSpec ==
    /\ Init
    /\ [][UploadNext]_vars
    /\ WF_vars(AnalyzeFetchFailed \/ AnalyzeFetchResolved)
    /\ WF_vars(AnalyzeJsonFailed \/ AnalyzeJsonResolved)

AnalyzeSettled == last.op = "analyzeSettled"
Spinning == ~loadingHidden /\ resultsHidden

(* C11, as claimed: in every reachable state with an analyze request in    *)
(* flight the loading indicator is visible and the results panel hidden.   *)
C11_InFlightShowsLoading ==
    analyzePending # {} => Spinning

(* C11, amended: a submit with a file shows the loading indicator and      *)
(* hides the results panel, and they stay so until the next analyze        *)
(* response or failure is handled, whichever submission it belongs to.     *)
C11_LoadingUntilNextSettle ==
    [][/\ (UploadSubmitted' /\ file # Undefined) => Spinning'
       /\ (Spinning /\ ~AnalyzeSettled') => Spinning']_vars

\* two submissions overlap and neither has been answered yet
C11_Witness ==
    /\ Cardinality(analyzePending) = 2
    /\ last.op = "analyzeResponse"
    /\ Spinning

(* C12: if every request settles, each analyze submission with a file is   *)
(* eventually handled, and the step that handles it shows the results      *)
(* panel or raises an error alert: requests in flight always leave flight, *)
(* and a request leaves flight only in the step that handles it.  Whenever *)
(* no analyze request is in flight the loading indicator is hidden.        *)
C12_SubmissionsComplete ==
    /\ [](analyzePending = {} => loadingHidden)
    /\ [][\A req \in analyzePending :
              (\A other \in analyzePending' : other.id # req.id) =>
                  /\ AnalyzeSettled'
                  /\ last'.id = req.id
                  /\ (~resultsHidden' \/ alerted' # Undefined)]_vars
    /\ (analyzePending # {}) ~> (analyzePending = {})

\* the second of two submissions has failed with an alert, none is in flight
C12_Witness ==
    /\ AnalyzeSettled
    /\ last.id = 2
    /\ alerted # Undefined
    /\ analyzePending = {}
    /\ loadingHidden

\* the analyze submission just settled in a network error or in a body
\* that carries an error field
AnalyzeRejected ==
    /\ AnalyzeSettled
    /\ \/ last.outcome = "network"
       \/ last.outcome = "data" /\ last.data.error # Undefined

(* C13: when an analyze request fails with a network error or an           *)
(* error-field response, the handler raises the alert and hides the        *)
(* loading indicator and changes nothing else: statistic fields, image     *)
(* sources, download target, recommendations list and card keep their      *)
(* values.                                                                 *)
C13_FailureChangesOnlyLoading ==
    [][AnalyzeRejected' =>
          /\ alerted' # Undefined
          /\ loadingHidden'
          /\ resultsHidden' = resultsHidden
          /\ totalRecords' = totalRecords
          /\ anomalyCount' = anomalyCount
          /\ anomalyPercentage' = anomalyPercentage
          /\ scatterPlot' = scatterPlot
          /\ distributionPlot' = distributionPlot
          /\ downloadBtn' = downloadBtn
          /\ recommendationsList' = recommendationsList
          /\ recommendationsCardHidden' = recommendationsCardHidden
          /\ generationStatus' = generationStatus
          /\ generationStatusHidden' = generationStatusHidden]_vars

\* a failure handled while the fields of an earlier analysis are filled in
C13_Witness ==
    /\ AnalyzeRejected
    /\ totalRecords # ""
    /\ downloadBtn # Undefined
    /\ recommendationsList # <<>>
    /\ ~recommendationsCardHidden
    /\ loadingHidden

(* C14: the loading indicator and the results panel are never both         *)
(* visible, under any interleaving of submits, responses and failures.     *)
C14_NeverBothVisible ==
    loadingHidden \/ resultsHidden

\* two submissions overlapped: the first was answered and is on display,
\* the second is still in flight
C14_Witness ==
    /\ AnalyzeSucceeded
    /\ last.id = 1
    /\ \E req \in analyzePending : req.id = 2
    /\ ~resultsHidden
    /\ loadingHidden

\* the fields of the results panel are those of the body d
Shows(d) ==
    /\ totalRecords = Displayed(d.statistics[1].total_records)
    /\ anomalyCount = Displayed(d.statistics[1].anomaly_count)
    /\ anomalyPercentage = Displayed(d.statistics[1].anomaly_percentage) \o "%"
    /\ scatterPlot = "/visualization/" \o d.timestamp[1] \o "/scatter"
    /\ distributionPlot = "/visualization/" \o d.timestamp[1] \o "/distribution"
    /\ downloadBtn = Some("/download/" \o d.timestamp[1])

ShowsNothing ==
    /\ totalRecords = "" /\ anomalyCount = "" /\ anomalyPercentage = ""
    /\ scatterPlot = "" /\ distributionPlot = "" /\ downloadBtn = Undefined

\* the fields are those of the body handled in the latest step
ShowsLast == AnalyzeSucceeded /\ Shows(last.data)

(* C15: in every reachable state the statistic fields, the two image URLs  *)
(* and the download target are those of one successful analyze response    *)
(* (or still empty): a step that changes any of them handles one           *)
(* successful response and writes all of them from it.                     *)
C15_DisplayFromOneResponse ==
    /\ [](\/ ShowsNothing
          \/ \E d \in AnalyzeData :
                 d.error = Undefined /\ d.statistics # Undefined /\ Shows(d))
    /\ [][results' # results => ShowsLast']_vars

\* the first of two overlapping submissions is on display, with its own
\* download target, while the second is at response.json()
C15_Witness ==
    /\ \E req \in analyzePending : req.id = 2 /\ req.at = "json"
    /\ ShowsLast
    /\ last.id = 1
    /\ totalRecords = "100"
    /\ scatterPlot = "/visualization/t1/scatter"
    /\ downloadBtn = Some("/download/t1")

(* C16, as claimed: when overlapping submissions all succeed, once no      *)
(* request is in flight the display is that of the most recently submitted *)
(* file.  The response of the latest submission is on display and the      *)
(* earlier submission, still in flight, is then answered successfully: the *)
(* display has to stay that of the latest submission.                      *)
C16_MostRecentSubmissionShown ==
    [][(/\ ShowsLast /\ alerted = Undefined
        /\ last.id = fetchCount
        /\ \E req \in analyzePending : analyzePending = {req} /\ req.id < last.id
        /\ AnalyzeSucceeded' /\ alerted' = Undefined
        /\ analyzePending' = {})
       => results' = results]_vars

(* C16, amended: once no request is in flight after a successful response, *)
(* the display is that of the response handled last, whichever submission  *)
(* it answers.                                                             *)
C16_LastHandledResponseShown ==
    (AnalyzeSucceeded /\ analyzePending = {}) => Shows(last.data)

\* two submissions, nothing in flight, and the display is the response to
\* the first of them, which was handled last
C16_Witness ==
    /\ ShowsLast
    /\ analyzePending = {}
    /\ last.id = 1
    /\ fetchCount = 2
    /\ generationStatusHidden
    /\ last.data.timestamp = Some("t2")

====
